---------------------------- MODULE Spec2Model ----------------------------
(* Verification model of the multi-source paper search layer:               *)
(*   utils/paper_source_manager.py   PaperSourceManager                     *)
(*   utils/arxiv_client.py           ArxivClient                            *)
(*   utils/pubmed_client.py          PubMedClient                           *)
(*   utils/semantic_scholar_client.py SemanticScholarClient                 *)
(*                                                                          *)
(* Five specifications share the module.  Spec is the source manager's      *)
(* search_papers_all_sources over arbitrary PaperSourceInterface            *)
(* implementations.  ClientSpec is the async search_papers of the three     *)
(* clients: rate limiter, retry loop and the HTTP exchange.  SyncSpec is    *)
(* SemanticScholarClient._make_request with its synchronous callers.        *)
(* TranslatorSpec applies the query translators, result filters and         *)
(* parsers of the clients, the journal lookup and the manager's merge to    *)
(* inputs drawn from bounded sets.  ConcurrentSpec runs two search_papers   *)
(* calls on one ArxivClient as tasks of one event loop.                     *)
EXTENDS Integers, Sequences, FiniteSets, TLC

VARIABLES
    \* ---- PaperSourceManager ------------------------------------------
    sources,            \* self.sources: the names of the registered clients
    selected_sources,   \* filters.get("sources", default) of the running call
    idx,                \* position of the for loop in selected_sources
    all_papers,         \* the merged list being built
    seen_paper_ids,     \* the set used for deduplication
    mpc,                \* where search_papers_all_sources stands
    searched,           \* positions whose source.search_papers was awaited
    failed,             \* positions whose try block ended in the handler
    returned_by,        \* per truthy id: the positions whose returned list held it
    escaped,            \* an exception left search_papers_all_sources
    \* ---- source clients (async search_papers) -------------------------
    client,             \* the client whose search_papers is running
    query,              \* its query argument, a sequence of characters
    cpc,                \* where the running search_papers stands
    retry_count,        \* retry_count of the retry loop
    sleep_time,         \* seconds of the sleep the call is suspended in
    result,             \* what the call returned
    http_log,           \* the HTTP requests of the call, in dispatch order
    backoffs,           \* the backoff sleeps of the call, in order
    limiter_ran,        \* _wait_for_rate_limit ran since the last dispatch
    last_request_age,   \* per client: time.time() - self.last_request_time
    since_dispatch,     \* per client: seconds since its last HTTP dispatch
    \* ---- SemanticScholarClient._make_request (synchronous) ------------
    sync_call,          \* the synchronous method that was called
    sync_pc,            \* where the call stands
    sync_retry_count,   \* retry_count of _make_request
    sync_response,      \* the local variable response of _make_request
    sync_requests,      \* outcomes of session.request, in call order
    sync_sleeps,        \* the time.sleep calls of the call, in order
    sync_result,        \* how the called method ended
    \* ---- query translators and result filters -------------------------
    t_call,             \* the search_papers call: client, query, filters, response
    t_out,              \* the parameters and records the call produced
    \* ---- concurrent calls on one ArxivClient --------------------------
    co_pc,              \* per task: where its search_papers stands
    co_sleep,           \* per task: seconds left of its asyncio.sleep
    co_last_request_age,\* time.time() - self.last_request_time of the client
    co_since_dispatch,  \* seconds since the client's last HTTP dispatch
    co_gaps             \* per dispatch, in order: seconds since the one before

mvars == <<sources, selected_sources, idx, all_papers, seen_paper_ids, mpc,
           searched, failed, returned_by, escaped>>

cvars == <<client, query, cpc, retry_count, sleep_time, result, http_log,
           backoffs, limiter_ran, last_request_age, since_dispatch>>

svars == <<sync_call, sync_pc, sync_retry_count, sync_response,
           sync_requests, sync_sleeps, sync_result>>

tvars == <<t_call, t_out>>

kvars == <<co_pc, co_sleep, co_last_request_age, co_since_dispatch, co_gaps>>

\* the variables outside the manager and the async clients
xvars == <<svars, tvars, kvars>>

vars == <<mvars, cvars, xvars>>

-----------------------------------------------------------------------------
(* Bounds and inputs of the manager model *)

MaxSelected == 3
MaxPapers == 2

\* get_source_name() of the three clients
SourceNames == {"arxiv", "pubmed", "semanticscholar"}

\* names a caller may put in filters["sources"]; "scopus" is never registered
RequestedNames == SourceNames \cup {"scopus"}

\* filters.get("sources", ["pubmed", "semanticscholar"])
DefaultSources == <<"pubmed", "semanticscholar">>

\* paper.get("id") values: two real ids, the empty string, and None
\* (PubMedClient gives 'id': None for an article without PMID)
NoneId == "<None>"
PaperIds == {"p1", "p2", "", NoneId}

\* Python truthiness of paper.get("id")
Truthy(paper_id) == paper_id # "" /\ paper_id # NoneId

TruthyIds == {p \in PaperIds : Truthy(p)}

SeqsUpTo(S, n) == UNION {[1..k -> S] : k \in 0..n}

\* what awaiting source.search_papers(query, filters) may produce
SearchOutcomes ==
    {[kind |-> "list", ids |-> s] : s \in SeqsUpTo(PaperIds, MaxPapers)}
    \cup {[kind |-> k, ids |-> <<>>] : k \in {"none", "dict", "raise"}}


\* filters as search_papers_all_sources reads it: the "sources" key may be absent
ManagerFilters ==
    {[has_sources |-> FALSE, sources |-> <<>>]}
    \cup {[has_sources |-> TRUE, sources |-> s] :
            s \in SeqsUpTo(RequestedNames, MaxSelected)}

-----------------------------------------------------------------------------
(* PaperSourceManager *)

\* filters.get("sources", ["pubmed", "semanticscholar"])
SelectedSources(filters) ==
    IF filters.has_sources THEN filters.sources ELSE DefaultSources

\* the list a source returned, as records: origin is the position of the call
\* that built the record and index its place in the returned list, no
\* "source" key yet
PapersOf(ids, pos) ==
    [i \in 1..Len(ids) |->
        [id |-> ids[i], origin |-> pos, index |-> i, source |-> ""]]

KeepPaperNoDedupe(paper_id, seen) == Truthy(paper_id)

\* if paper_id and paper_id not in seen_paper_ids
KeepPaper(paper_id, seen) == Truthy(paper_id) /\ paper_id \notin seen

\* a merge that puts each kept record in front of the list
RECURSIVE MergePapersPrepend(_, _, _, _)
MergePapersPrepend(papers, acc, seen, source_name) ==
    IF papers = <<>>
    THEN [all_papers |-> acc, seen_paper_ids |-> seen]
    ELSE LET paper == Head(papers)
             paper_id == paper.id
         IN  IF KeepPaper(paper_id, seen)
             THEN MergePapersPrepend(Tail(papers),
                      <<[paper EXCEPT !.source = source_name]>> \o acc,
                      seen \cup {paper_id}, source_name)
             ELSE MergePapersPrepend(Tail(papers), acc, seen, source_name)

\* the for loop over papers: dedupe, tag with source_name, append
RECURSIVE MergePapers(_, _, _, _)
MergePapers(papers, acc, seen, source_name) ==
    IF papers = <<>>
    THEN [all_papers |-> acc, seen_paper_ids |-> seen]
    ELSE LET paper == Head(papers)
             paper_id == paper.id
         IN  IF KeepPaper(paper_id, seen)
             THEN MergePapers(Tail(papers),
                              Append(acc, [paper EXCEPT !.source = source_name]),
                              seen \cup {paper_id}, source_name)
             ELSE MergePapers(Tail(papers), acc, seen, source_name)

\* the try block raises: the awaited search raised; len(None) is a TypeError;
\* iterating a mapping yields its keys and str has no .get
TryRaises(out) == out.kind \in {"raise", "none", "dict"}

\* a handler for errors of the awaited search only
HandledSearchErrorsOnly(out) == out.kind = "raise"

\* except Exception as e: every Exception of the try block is caught
Handled(out) == TRUE

\* a membership test that every name passes
IsRegisteredAlways(source_name, registered) == TRUE

\* source_name in self.sources
IsRegistered(source_name, registered) == source_name \in registered

MInit ==
    /\ sources = {}
    /\ selected_sources = <<>>
    /\ idx = 1
    /\ all_papers = <<>>
    /\ seen_paper_ids = {}
    /\ mpc = "idle"
    /\ searched = {}
    /\ failed = {}
    /\ returned_by = [p \in TruthyIds |-> {}]
    /\ escaped = FALSE

\* register_source(source): self.sources[source.get_source_name()] = source
register_source(source_name) ==
    /\ mpc = "idle"
    /\ sources' = sources \cup {source_name}
    /\ UNCHANGED <<selected_sources, idx, all_papers, seen_paper_ids, mpc,
                   searched, failed, returned_by, escaped>>
    /\ UNCHANGED <<cvars, xvars>>

\* entry of search_papers_all_sources: empty result, empty seen set, the
\* selected sources read from filters.  Everything but self.sources is local
\* to the call, so one call per behaviour covers every call.
search_papers_all_sources(filters) ==
    /\ mpc = "idle"
    /\ all_papers' = <<>>
    /\ seen_paper_ids' = {}
    /\ selected_sources' = SelectedSources(filters)
    /\ idx' = 1
    /\ mpc' = "loop"
    /\ searched' = {}
    /\ failed' = {}
    /\ returned_by' = [p \in TruthyIds |-> {}]
    /\ escaped' = FALSE
    /\ UNCHANGED sources
    /\ UNCHANGED <<cvars, xvars>>

\* if source_name not in self.sources: warning; continue
SkipUnknown ==
    /\ mpc = "loop"
    /\ idx <= Len(selected_sources)
    /\ ~IsRegistered(selected_sources[idx], sources)
    /\ idx' = idx + 1
    /\ UNCHANGED <<sources, selected_sources, all_papers, seen_paper_ids, mpc,
                   searched, failed, returned_by, escaped>>
    /\ UNCHANGED <<cvars, xvars>>

\* papers = await source.search_papers(query, filters): the manager suspends
AwaitSearch ==
    /\ mpc = "loop"
    /\ idx <= Len(selected_sources)
    /\ IsRegistered(selected_sources[idx], sources)
    /\ mpc' = "await"
    /\ searched' = searched \cup {idx}
    /\ UNCHANGED <<sources, selected_sources, idx, all_papers, seen_paper_ids,
                   failed, returned_by, escaped>>
    /\ UNCHANGED <<cvars, xvars>>

\* the awaited search ends with outcome out; the rest of the try block and
\* the handler run without suspending
SearchReturns(out) ==
    /\ mpc = "await"
    /\ IF TryRaises(out)
       THEN /\ failed' = failed \cup {idx}
            /\ IF Handled(out)
               THEN /\ mpc' = "loop"
                    /\ idx' = idx + 1
                    /\ escaped' = escaped
               ELSE /\ mpc' = "done"
                    /\ idx' = idx
                    /\ escaped' = TRUE
            /\ UNCHANGED <<all_papers, seen_paper_ids, returned_by>>
       ELSE LET m == MergePapers(PapersOf(out.ids, idx), all_papers,
                                 seen_paper_ids, selected_sources[idx])
            IN  /\ all_papers' = m.all_papers
                /\ seen_paper_ids' = m.seen_paper_ids
                /\ returned_by' = [p \in TruthyIds |->
                                     IF \E i \in 1..Len(out.ids) : out.ids[i] = p
                                     THEN returned_by[p] \cup {idx}
                                     ELSE returned_by[p]]
                /\ mpc' = "loop"
                /\ idx' = idx + 1
                /\ UNCHANGED <<failed, escaped>>
    /\ UNCHANGED <<sources, selected_sources, searched>>
    /\ UNCHANGED <<cvars, xvars>>

\* return all_papers
ReturnAllPapers ==
    /\ mpc = "loop"
    /\ idx > Len(selected_sources)
    /\ mpc' = "done"
    /\ UNCHANGED <<sources, selected_sources, idx, all_papers, seen_paper_ids,
                   searched, failed, returned_by, escaped>>
    /\ UNCHANGED <<cvars, xvars>>

MNext ==
    \/ \E n \in SourceNames : register_source(n)
    \/ \E f \in ManagerFilters : search_papers_all_sources(f)
    \/ SkipUnknown
    \/ AwaitSearch
    \/ \E out \in SearchOutcomes : SearchReturns(out)
    \/ ReturnAllPapers

-----------------------------------------------------------------------------
(* Source clients: constants and inputs *)

\* self.request_interval = 3 (seconds), the same in the three clients
request_interval == 3

\* max_retries = 3 in ArxivClient.search_papers and in the async
\* SemanticScholarClient.search_papers
max_retries == 3

\* wait_time = 30 after an HTTP 429 (both clients) and after any other failed
\* attempt of SemanticScholarClient
wait_time == 30

\* await asyncio.sleep(5) after an aiohttp.ClientError in ArxivClient
client_error_sleep == 5

\* Ages saturate here; the code compares them with request_interval only
AgeCap == 4

\* seconds an HTTP exchange may take (the 30 s timeout is the error "timeout")
MaxLatency == 1

Clients == SourceNames

IsSpace(ch) == ch \in {" ", "\t", "\n"}

RECURSIVE LStrip(_)
LStrip(s) == IF s # <<>> /\ IsSpace(Head(s)) THEN LStrip(Tail(s)) ELSE s

RECURSIVE RStrip(_)
RStrip(s) ==
    IF s # <<>> /\ IsSpace(s[Len(s)])
    THEN RStrip(SubSeq(s, 1, Len(s) - 1)) ELSE s

\* str.strip()
Strip(s) == RStrip(LStrip(s))

\* query arguments: empty, whitespace only, and two with text
Queries == {<<>>, <<" ">>, <<" ", "\t">>, <<"q">>, <<" ", "q", " ">>}

\* ids of the entries a 200 body may carry, and how many
EntryIds == {"p1", "p2"}
MaxEntries == 1

\* What one HTTP exchange ends in.  kind "http" is a response with a status;
\* for a 200, body_ok says whether the body is usable (XML that parses, JSON
\* holding an object) and ids are the ids of the entries it carries.
\* "client_error" is an aiohttp.ClientError (connection failure),
\* "timeout" the asyncio.TimeoutError of the 30 s timeout.
HttpResponses ==
    {[kind |-> "http", status |-> 200, body_ok |-> TRUE, ids |-> ids] :
        ids \in SeqsUpTo(EntryIds, MaxEntries)}
    \cup {[kind |-> "http", status |-> 200, body_ok |-> FALSE, ids |-> <<>>]}
    \cup {[kind |-> "http", status |-> st, body_ok |-> TRUE, ids |-> <<>>] :
            st \in {400, 404, 429, 500, 503}}
    \cup {[kind |-> k, status |-> 0, body_ok |-> FALSE, ids |-> <<>>] :
            k \in {"client_error", "timeout"}}

\* return values of search_papers
ListResult(ids) == [kind |-> "list", ids |-> ids]
EmptyList == ListResult(<<>>)
NoneResult == [kind |-> "none", ids |-> <<>>]
Pending == [kind |-> "pending", ids |-> <<>>]

\* d seconds pass
Advance(ages, d) ==
    [c \in Clients |-> IF ages[c] + d > AgeCap THEN AgeCap ELSE ages[c] + d]

CInit ==
    /\ client = "arxiv"
    /\ query = <<>>
    /\ cpc = "idle"
    /\ retry_count = 0
    /\ sleep_time = 0
    /\ result = Pending
    /\ http_log = <<>>
    /\ backoffs = <<>>
    /\ limiter_ran = FALSE
    \* self.last_request_time = 0 and time.time() is the epoch time
    /\ last_request_age = [c \in Clients |-> AgeCap]
    /\ since_dispatch = [c \in Clients |-> AgeCap]

-----------------------------------------------------------------------------
(* Steps shared by the clients *)

\* the call returns value
Return(value) ==
    /\ cpc' = "returned"
    /\ result' = value
    /\ sleep_time' = 0

\* the call suspends in asyncio.sleep(seconds) before the next attempt
Backoff(seconds) ==
    /\ cpc' = "backoff"
    /\ sleep_time' = seconds
    /\ backoffs' = Append(backoffs, seconds)
    /\ result' = result

\* session.get(...) goes out to endpoint
Dispatch(endpoint) ==
    /\ http_log' = Append(http_log,
                          [endpoint |-> endpoint,
                           kind |-> "pending", status |-> 0,
                           has_ids |-> FALSE,
                           gap |-> since_dispatch[client],
                           limited |-> limiter_ran,
                           request_time_age |-> last_request_age[client]])
    /\ since_dispatch' = [since_dispatch EXCEPT ![client] = 0]
    /\ limiter_ran' = FALSE
    /\ cpc' = "http"

\* the response of the pending request arrives after latency seconds
Arrive(resp, latency) ==
    /\ http_log' = [http_log EXCEPT ![Len(http_log)] =
                        [@ EXCEPT !.kind = resp.kind, !.status = resp.status,
                                  !.has_ids = resp.ids # <<>>]]
    /\ last_request_age' = Advance(last_request_age, latency)
    /\ since_dispatch' = Advance(since_dispatch, latency)

\* a caller starts search_papers(q, filters) on client c
CallSearch(c, q) ==
    /\ cpc \in {"idle", "returned"}
    /\ client' = c
    /\ query' = q
    /\ retry_count' = 0
    /\ sleep_time' = 0
    /\ http_log' = <<>>
    /\ backoffs' = <<>>
    /\ limiter_ran' = FALSE
    /\ IF c = "arxiv"
       THEN \* if not query.strip(): return []
            IF Strip(q) = <<>>
            THEN cpc' = "returned" /\ result' = EmptyList
            ELSE cpc' = "limiter" /\ result' = Pending
       ELSE \* PubMedClient and SemanticScholarClient go straight to the request
            cpc' = "loop" /\ result' = Pending
    /\ UNCHANGED <<last_request_age, since_dispatch>>
    /\ UNCHANGED <<mvars, xvars>>

\* time passes between two calls
Tick ==
    /\ cpc \in {"idle", "returned"}
    /\ \E c \in Clients : last_request_age[c] < AgeCap \/ since_dispatch[c] < AgeCap
    /\ last_request_age' = Advance(last_request_age, 1)
    /\ since_dispatch' = Advance(since_dispatch, 1)
    /\ UNCHANGED <<client, query, cpc, retry_count, sleep_time, result,
                   http_log, backoffs, limiter_ran>>
    /\ UNCHANGED <<mvars, xvars>>

\* await asyncio.sleep(wait_time) or asyncio.sleep(5) ends
BackoffWake ==
    /\ cpc = "backoff"
    /\ last_request_age' = Advance(last_request_age, sleep_time)
    /\ since_dispatch' = Advance(since_dispatch, sleep_time)
    /\ sleep_time' = 0
    /\ cpc' = "loop"
    /\ UNCHANGED <<client, query, retry_count, result, http_log, backoffs,
                   limiter_ran>>
    /\ UNCHANGED <<mvars, xvars>>

-----------------------------------------------------------------------------
(* ArxivClient *)

\* _wait_for_rate_limit up to its await: elapsed < request_interval suspends
\* in asyncio.sleep(request_interval - elapsed); otherwise the time stamp is
\* taken at once
ArxivWaitForRateLimit ==
    /\ cpc = "limiter"
    /\ client = "arxiv"
    /\ LET elapsed == last_request_age["arxiv"]
       IN  IF elapsed < request_interval
           THEN /\ sleep_time' = request_interval - elapsed
                /\ cpc' = "limiter_sleep"
                /\ UNCHANGED <<last_request_age, limiter_ran>>
           ELSE /\ last_request_age' = [last_request_age EXCEPT !["arxiv"] = 0]
                /\ limiter_ran' = TRUE
                /\ cpc' = "loop"
                /\ sleep_time' = 0
    /\ UNCHANGED <<client, query, retry_count, result, http_log, backoffs,
                   since_dispatch>>
    /\ UNCHANGED <<mvars, xvars>>

\* the limiter's sleep ends: self.last_request_time = time.time()
ArxivRateLimitWake ==
    /\ cpc = "limiter_sleep"
    /\ client = "arxiv"
    /\ last_request_age' =
          [Advance(last_request_age, sleep_time) EXCEPT !["arxiv"] = 0]
    /\ since_dispatch' = Advance(since_dispatch, sleep_time)
    /\ limiter_ran' = TRUE
    /\ sleep_time' = 0
    /\ cpc' = "loop"
    /\ UNCHANGED <<client, query, retry_count, result, http_log, backoffs>>
    /\ UNCHANGED <<mvars, xvars>>

\* while retry_count < max_retries: session.get(...); when the condition is
\* false the function body ends without a return statement: None
ArxivLoop ==
    /\ cpc = "loop"
    /\ client = "arxiv"
    /\ IF retry_count < max_retries
       THEN /\ Dispatch("query")
            /\ UNCHANGED <<result, sleep_time>>
       ELSE /\ Return(NoneResult)
            /\ UNCHANGED <<http_log, since_dispatch, limiter_ran>>
    /\ UNCHANGED <<client, query, retry_count, backoffs, last_request_age>>
    /\ UNCHANGED <<mvars, xvars>>

\* the body of async with ... as response, and the two except clauses
ArxivResponse(resp, latency) ==
    /\ cpc = "http"
    /\ client = "arxiv"
    /\ Arrive(resp, latency)
    /\ IF resp.kind = "http" /\ resp.status = 200
       THEN \* return self._parse_response(content); unparsable XML gives []
            /\ Return(ListResult(IF resp.body_ok THEN resp.ids ELSE <<>>))
            /\ UNCHANGED <<retry_count, backoffs>>
       ELSE IF resp.kind = "http" /\ resp.status = 400
       THEN /\ Return(EmptyList)
            /\ UNCHANGED <<retry_count, backoffs>>
       ELSE IF resp.kind = "http" /\ resp.status = 429
       THEN \* retry_count += 1; await asyncio.sleep(30), also after the
            \* last attempt
            /\ retry_count' = retry_count + 1
            /\ Backoff(wait_time)
       ELSE IF resp.kind = "http"
       THEN \* any other status, 5xx included
            /\ Return(EmptyList)
            /\ UNCHANGED <<retry_count, backoffs>>
       ELSE IF resp.kind = "client_error"
       THEN \* except aiohttp.ClientError
            /\ retry_count' = retry_count + 1
            /\ IF retry_count + 1 < max_retries
               THEN Backoff(client_error_sleep)
               ELSE Return(EmptyList) /\ UNCHANGED backoffs
       ELSE \* asyncio.TimeoutError is no ClientError: the outer
            \* except Exception returns []
            /\ Return(EmptyList)
            /\ UNCHANGED <<retry_count, backoffs>>
    /\ UNCHANGED <<client, query, limiter_ran>>
    /\ UNCHANGED <<mvars, xvars>>

-----------------------------------------------------------------------------
(* SemanticScholarClient, async search_papers *)

\* while retry_count < max_retries: session.get(...); after the loop return []
SemanticScholarLoop ==
    /\ cpc = "loop"
    /\ client = "semanticscholar"
    /\ IF retry_count < max_retries
       THEN /\ Dispatch("paper/search")
            /\ UNCHANGED <<result, sleep_time>>
       ELSE /\ Return(EmptyList)
            /\ UNCHANGED <<http_log, since_dispatch, limiter_ran>>
    /\ UNCHANGED <<client, query, retry_count, backoffs, last_request_age>>
    /\ UNCHANGED <<mvars, xvars>>

\* if retry_count >= max_retries - 1: return []; else retry_count += 1 and
\* await asyncio.sleep(30): the else branch of the status test and the
\* except Exception clause of the loop body
SemanticScholarFailedAttempt ==
    IF retry_count >= max_retries - 1
    THEN Return(EmptyList) /\ UNCHANGED <<retry_count, backoffs>>
    ELSE retry_count' = retry_count + 1 /\ Backoff(wait_time)

SemanticScholarResponse(resp, latency) ==
    /\ cpc = "http"
    /\ client = "semanticscholar"
    /\ Arrive(resp, latency)
    /\ IF resp.kind = "http" /\ resp.status = 429
       THEN /\ retry_count' = retry_count + 1
            /\ Backoff(wait_time)
       ELSE IF resp.kind = "http" /\ resp.status = 200 /\ resp.body_ok
       THEN /\ Return(ListResult(resp.ids))
            /\ UNCHANGED <<retry_count, backoffs>>
       ELSE \* a 200 whose JSON fails, any other status, any exception
            SemanticScholarFailedAttempt
    /\ UNCHANGED <<client, query, limiter_ran>>
    /\ UNCHANGED <<mvars, xvars>>

-----------------------------------------------------------------------------
(* PubMedClient *)

\* every 200 response taken for one that holds ids
HasIdListAny200(resp) == resp.kind = "http" /\ resp.status = 200

\* if response.status == 200 and the id_list parsed from it is not empty
HasIdList(resp) ==
    /\ resp.kind = "http" /\ resp.status = 200
    /\ resp.body_ok /\ resp.ids # <<>>

\* session.get(f"{self.base_url}/esearch.fcgi", ...)
PubMedEsearch ==
    /\ cpc = "loop"
    /\ client = "pubmed"
    /\ Dispatch("esearch")
    /\ UNCHANGED <<client, query, retry_count, sleep_time, result, backoffs,
                   last_request_age>>
    /\ UNCHANGED <<mvars, xvars>>

\* the esearch response: 200 with ids goes on to _fetch_papers_details,
\* whose session.get goes out in the same step; everything else returns []
PubMedEsearchResponse(resp, latency) ==
    /\ cpc = "http"
    /\ client = "pubmed"
    /\ http_log[Len(http_log)].endpoint = "esearch"
    /\ LET arrived == [http_log EXCEPT ![Len(http_log)] =
                          [@ EXCEPT !.kind = resp.kind, !.status = resp.status,
                                    !.has_ids = resp.ids # <<>>]]
           age == Advance(last_request_age, latency)
           since == Advance(since_dispatch, latency)
       IN  /\ last_request_age' = age
           /\ IF HasIdList(resp)
              THEN /\ http_log' = Append(arrived,
                                    [endpoint |-> "efetch",
                                     kind |-> "pending", status |-> 0,
                                     has_ids |-> FALSE,
                                     gap |-> since["pubmed"],
                                     limited |-> limiter_ran,
                                     request_time_age |-> age["pubmed"]])
                   /\ since_dispatch' = [since EXCEPT !["pubmed"] = 0]
                   /\ UNCHANGED <<cpc, result, sleep_time>>
              ELSE /\ http_log' = arrived
                   /\ since_dispatch' = since
                   /\ Return(EmptyList)
    /\ UNCHANGED <<client, query, retry_count, backoffs, limiter_ran>>
    /\ UNCHANGED <<mvars, xvars>>

\* the efetch response: 200 returns the parsed articles, everything else []
PubMedEfetchResponse(resp, latency) ==
    /\ cpc = "http"
    /\ client = "pubmed"
    /\ http_log[Len(http_log)].endpoint = "efetch"
    /\ Arrive(resp, latency)
    /\ IF resp.kind = "http" /\ resp.status = 200
       THEN Return(ListResult(IF resp.body_ok THEN resp.ids ELSE <<>>))
       ELSE Return(EmptyList)
    /\ UNCHANGED <<client, query, retry_count, backoffs, limiter_ran>>
    /\ UNCHANGED <<mvars, xvars>>

CNext ==
    \/ \E c \in Clients, q \in Queries : CallSearch(c, q)
    \/ Tick
    \/ BackoffWake
    \/ ArxivWaitForRateLimit
    \/ ArxivRateLimitWake
    \/ ArxivLoop
    \/ \E resp \in HttpResponses, latency \in 0..MaxLatency :
          ArxivResponse(resp, latency)
    \/ SemanticScholarLoop
    \/ \E resp \in HttpResponses, latency \in 0..MaxLatency :
          SemanticScholarResponse(resp, latency)
    \/ PubMedEsearch
    \/ \E resp \in HttpResponses, latency \in 0..MaxLatency :
          PubMedEsearchResponse(resp, latency)
    \/ \E resp \in HttpResponses, latency \in 0..MaxLatency :
          PubMedEfetchResponse(resp, latency)
-----------------------------------------------------------------------------
(* SemanticScholarClient._make_request and its synchronous callers *)

\* time.sleep(10) at the head of _make_request
pacing_sleep == 10
\* wait_time = 30 of _make_request
sync_wait_time == 30

\* bound on the session.request calls of one _make_request
MaxSyncRequests == 4

\* the synchronous entry points
SyncCalls == {"_make_request", "get_paper_details", "search_papers"}

\* two distinguishable JSON payloads
SyncBodies == {"b1", "b2"}

\* Retry(total=3, ...) mounted on the session: a request whose response
\* status is in status_forcelist (429, 5xx), or whose connection fails, is
\* sent again by the adapter up to total times before session.request
\* returns or raises
adapter_total == 3

\* the HTTP requests one session.request call puts on the wire: one, or
\* one and every retry of the adapter
AdapterRequests == {1, adapter_total + 1}

\* What self.session.request does: it returns a response or raises a
\* requests.exceptions.RequestException (RetryError when the adapter has
\* used up its retries).  A response whose status is in status_forcelist
\* comes back only unretried.  bool(response) is response.ok for a
\* requests.Response and True for a stand-in object; a 200 response is truthy
\* either way.
SessionOutcomes ==
    [kind : {"response"}, status : {200}, truthy : {TRUE}, body : SyncBodies,
     sent : AdapterRequests]
    \cup [kind : {"response"}, status : {400, 403},
          truthy : BOOLEAN, body : {"error"}, sent : AdapterRequests]
    \cup [kind : {"response"}, status : {429, 500},
          truthy : BOOLEAN, body : {"error"}, sent : {1}]
    \cup [kind : {"exception"}, status : {0}, truthy : {FALSE},
          body : {"error"}, sent : AdapterRequests]

NoResponse ==
    [kind |-> "none", status |-> 0, truthy |-> FALSE, body |-> "error",
     sent |-> 0]

SyncPending == [kind |-> "pending", body |-> "", msg |-> ""]
SyncNone == [kind |-> "none", body |-> "", msg |-> ""]
SyncPayload(body) == [kind |-> "payload", body |-> body, msg |-> ""]
SyncList(body) == [kind |-> "list", body |-> body, msg |-> ""]
SyncRaise(msg) == [kind |-> "raise", body |-> "", msg |-> msg]

\* the messages that contain the words "Semantic Scholar"
NamesSource(msg) == msg \in {"server_error", "search_failed"}

\* while retry_count < max_retries
SyncLoopGuard(rc) == rc < max_retries

\* response.raise_for_status()
RaiseForStatusAlways(status) == status >= 200
RaiseForStatus(status) == status >= 400

\* error_msg of the except clause of _make_request
ErrorMsg(response) ==
    IF response.truthy /\ response.status = 429 THEN "too_frequent"
    ELSE IF response.truthy /\ response.status = 400 THEN "invalid_request"
    ELSE IF response.truthy /\ response.status = 403 THEN "forbidden"
    ELSE IF response.truthy /\ response.status >= 500 THEN "server_error"
    ELSE "cause"

\* what the caller of _make_request makes of its outcome r
CallerOutcome(call, r) ==
    IF call = "search_papers"
    THEN IF r.kind = "payload" THEN SyncList(r.body)
         ELSE SyncRaise("search_failed")
    ELSE r

SInit ==
    /\ sync_call = "none"
    /\ sync_pc = "idle"
    /\ sync_retry_count = 0
    /\ sync_response = NoResponse
    /\ sync_requests = <<>>
    /\ sync_sleeps = <<>>
    /\ sync_result = SyncPending

\* _make_request ends with outcome r, and so does its caller
MakeRequestEnds(r) ==
    /\ sync_pc' = "done"
    /\ sync_result' = CallerOutcome(sync_call, r)

\* a synchronous method is called; _make_request sleeps before its loop
SyncCall(call) ==
    /\ sync_pc = "idle"
    /\ sync_call' = call
    /\ sync_pc' = "loop"
    /\ sync_sleeps' = <<[kind |-> "pacing", seconds |-> pacing_sleep]>>
    /\ UNCHANGED <<sync_retry_count, sync_response, sync_requests, sync_result>>
    /\ UNCHANGED <<mvars, cvars, tvars, kvars>>

\* the except clause of _make_request, response being the local variable
ExceptClause(response) ==
    IF response.truthy /\ response.status = 429
       /\ sync_retry_count < max_retries - 1
    THEN \* continue
         /\ UNCHANGED <<sync_pc, sync_retry_count, sync_sleeps, sync_result>>
    ELSE IF sync_retry_count >= max_retries - 1
    THEN /\ MakeRequestEnds(SyncRaise(ErrorMsg(response)))
         /\ UNCHANGED <<sync_retry_count, sync_sleeps>>
    ELSE /\ sync_retry_count' = sync_retry_count + 1
         /\ sync_sleeps' = Append(sync_sleeps,
                [kind |-> "backoff", seconds |-> sync_wait_time])
         /\ UNCHANGED <<sync_pc, sync_result>>

\* one pass of the while loop: session.request and what follows it
SessionRequest(out) ==
    /\ sync_pc = "loop"
    /\ SyncLoopGuard(sync_retry_count)
    /\ Len(sync_requests) < MaxSyncRequests
    /\ sync_requests' = Append(sync_requests, out)
    /\ IF out.kind = "exception"
       THEN /\ UNCHANGED sync_response
            /\ ExceptClause(sync_response)
       ELSE /\ sync_response' = out
            /\ IF out.status = 429
               THEN /\ sync_retry_count' = sync_retry_count + 1
                    /\ sync_sleeps' = Append(sync_sleeps,
                           [kind |-> "backoff", seconds |-> sync_wait_time])
                    /\ UNCHANGED <<sync_pc, sync_result>>
               ELSE IF RaiseForStatus(out.status)
               THEN ExceptClause(out)
               ELSE /\ MakeRequestEnds(SyncPayload(out.body))
                    /\ UNCHANGED <<sync_retry_count, sync_sleeps>>
    /\ UNCHANGED sync_call
    /\ UNCHANGED <<mvars, cvars, tvars, kvars>>

\* the while condition fails: _make_request ends without a return statement
LoopExhausted ==
    /\ sync_pc = "loop"
    /\ ~SyncLoopGuard(sync_retry_count)
    /\ MakeRequestEnds(SyncNone)
    /\ UNCHANGED <<sync_call, sync_retry_count, sync_response, sync_requests,
                   sync_sleeps>>
    /\ UNCHANGED <<mvars, cvars, tvars, kvars>>

SNext ==
    \/ \E call \in SyncCalls : SyncCall(call)
    \/ \E out \in SessionOutcomes : SessionRequest(out)
    \/ LoopExhausted
-----------------------------------------------------------------------------
(* Strings as sequences of characters, and the str operations the query    *)
(* translators use                                                          *)

\* s[i..] starts with sub
StartsWithAt(s, sub, i) ==
    /\ i + Len(sub) - 1 <= Len(s)
    /\ \A k \in 1..Len(sub) : s[i + k - 1] = sub[k]

\* sub in s
Contains(s, sub) == \E i \in 1..(Len(s) + 1) : StartsWithAt(s, sub, i)

\* s.count(sub) for a sub that cannot overlap itself
Count(s, sub) == Cardinality({i \in 1..Len(s) : StartsWithAt(s, sub, i)})

\* s.replace(old, new) for a non-empty old: left to right from place i on,
\* no overlaps
RECURSIVE ReplaceFrom(_, _, _, _)
ReplaceFrom(s, old, new, i) ==
    IF i > Len(s) THEN <<>>
    ELSE IF StartsWithAt(s, old, i)
    THEN new \o ReplaceFrom(s, old, new, i + Len(old))
    ELSE <<s[i]>> \o ReplaceFrom(s, old, new, i + 1)

Replace(s, old, new) == ReplaceFrom(s, old, new, 1)

\* s.split(): the maximal runs of non-whitespace characters, read from
\* place i on
RECURSIVE SplitFrom(_, _, _, _)
SplitFrom(s, i, word, words) ==
    IF i > Len(s)
    THEN IF word = <<>> THEN words ELSE Append(words, word)
    ELSE IF IsSpace(s[i])
    THEN SplitFrom(s, i + 1, <<>>,
                   IF word = <<>> THEN words ELSE Append(words, word))
    ELSE SplitFrom(s, i + 1, Append(word, s[i]), words)

Split(s) == SplitFrom(s, 1, <<>>, <<>>)

\* ' '.join(terms)
RECURSIVE Join(_)
Join(terms) ==
    IF terms = <<>> THEN <<>>
    ELSE IF Len(terms) = 1 THEN terms[1]
    ELSE terms[1] \o <<" ">> \o Join(Tail(terms))

\* str(n) of a non-negative integer
Digits == <<"0", "1", "2", "3", "4", "5", "6", "7", "8", "9">>
RECURSIVE Str(_)
Str(n) == IF n < 10 THEN <<Digits[n + 1]>>
          ELSE Str(n \div 10) \o <<Digits[(n % 10) + 1]>>

\* urllib.parse.quote never escapes letters, digits and "_.-~"
Unreserved ==
    {"a", "b", "c", "d", "e", "f", "g", "h", "i", "j", "k", "l", "m",
     "n", "o", "p", "q", "r", "s", "t", "u", "v", "w", "x", "y", "z"}
    \cup {"A", "B", "C", "D", "E", "F", "G", "H", "I", "J", "K", "L", "M",
     "N", "O", "P", "Q", "R", "S", "T", "U", "V", "W", "X", "Y", "Z"}
    \cup {"0", "1", "2", "3", "4", "5", "6", "7", "8", "9", "_", ".", "-", "~"}

\* safe=':"()[]+-' of _build_search_query
SafeChars == {":", "\"", "(", ")", "[", "]", "+", "-"}

\* %XX of the other characters the queries hold
PercentCode(ch) ==
    CASE ch = " "  -> <<"%", "2", "0">>
      [] ch = "\"" -> <<"%", "2", "2">>
      [] ch = "*"  -> <<"%", "2", "A">>
      [] ch = "/"  -> <<"%", "2", "F">>
      [] ch = ":"  -> <<"%", "3", "A">>
      [] ch = "("  -> <<"%", "2", "8">>
      [] ch = ")"  -> <<"%", "2", "9">>
      [] ch = "["  -> <<"%", "5", "B">>
      [] ch = "]"  -> <<"%", "5", "D">>
      [] ch = "+"  -> <<"%", "2", "B">>
      [] ch = "\t" -> <<"%", "0", "9">>

\* urllib.parse.quote(s, safe=safe): the characters lo..hi of s, each kept
\* or escaped, in order
RECURSIVE QuoteRange(_, _, _, _)
QuoteRange(s, safe, lo, hi) ==
    IF lo > hi THEN <<>>
    ELSE IF lo = hi
    THEN IF s[lo] \in Unreserved \cup safe
         THEN <<s[lo]>> ELSE PercentCode(s[lo])
    ELSE LET mid == (lo + hi) \div 2
         IN  QuoteRange(s, safe, lo, mid) \o QuoteRange(s, safe, mid + 1, hi)

Quote(s, safe) == QuoteRange(s, safe, 1, Len(s))

-----------------------------------------------------------------------------
(* ArxivClient._build_search_query and the request parameters *)

\* queries of the tests and of callers: a quoted phrase, operators in upper
\* and lower case, field prefixes, one word, several words
QuotedPhrase ==
    <<"\"", "e", "v", "e", "n", "t", " ", "p", "r", "o", "c", "e", "s", "s",
      "i", "n", "g", "\"">>
OrQuery ==
    <<"e", "v", "e", "n", "t", " ", "O", "R", " ", "p", "r", "o", "c", "e",
      "s", "s", "i", "n", "g">>
TitleQuery == <<"t", "i", ":", "e", "v", "e", "n", "t">>
OneWord == <<"e", "v", "e", "n", "t">>
TwoWords ==
    <<"e", "v", "e", "n", "t", " ", " ", "p", "r", "o", "c", "e", "s", "s",
      "i", "n", "g">>
LowerOps ==
    <<" ", "t", "i", ":", "a", " ", "a", "n", "d", " ", "b", " ", "o", "r",
      " ", "c", " ">>
MixedOps == <<"a", " ", "o", "r", " ", "b", " ", "A", "N", "D", " ", "c">>
CategoryQuery ==
    <<"c", "a", "t", ":", "c", "s", ".", "*", " ", "A", "N", "D", " ", "e",
      "v", "e", "n", "t">>
LowerOnly == <<"a", " ", "a", "n", "d", " ", "b">>
OrInsideWord == <<"F", "O", "R", " ", "x">>

ArxivQueries == {QuotedPhrase, OrQuery, TitleQuery, OneWord, TwoWords,
                 LowerOps, MixedOps, CategoryQuery, LowerOnly, OrInsideWord}

\* calendar years of a year_range and of a record
Years == {2019, 2024, 2025}

\* bound on the citation counts of a record and of min_citation_count
MaxCites == 2

\* bound on the records of one response
MaxRecords == 2

\* filters as the clients read it; year_range, papers_limit and
\* min_citation_count may each be absent
YearRangeFilters ==
    [has_year_range : {FALSE}, start_year : {2019}, end_year : {2019}]
    \cup [has_year_range : {TRUE}, start_year : Years, end_year : Years]

PapersLimitFilters ==
    [has_papers_limit : {FALSE}, papers_limit : {100}]
    \cup [has_papers_limit : {TRUE}, papers_limit : {10, 100, 101}]

MinCitationFilters ==
    [has_min_citation_count : {FALSE}, min_citation_count : {0}]
    \cup [has_min_citation_count : {TRUE}, min_citation_count : 0..MaxCites]

SearchFilters ==
    {[has_year_range |-> y.has_year_range, start_year |-> y.start_year,
      end_year |-> y.end_year,
      has_papers_limit |-> p.has_papers_limit,
      papers_limit |-> p.papers_limit,
      has_min_citation_count |-> c.has_min_citation_count,
      min_citation_count |-> c.min_citation_count] :
        y \in YearRangeFilters, p \in PapersLimitFilters,
        c \in MinCitationFilters}

\* the filters a caller gives each client
ArxivFilters == {f \in SearchFilters : ~f.has_min_citation_count}

\* filters = {}
NoFilters ==
    [has_year_range |-> FALSE, start_year |-> 2019, end_year |-> 2019,
     has_papers_limit |-> FALSE, papers_limit |-> 100,
     has_min_citation_count |-> FALSE, min_citation_count |-> 0]
PubMedFilters == {f \in SearchFilters : ~f.has_min_citation_count}
SemanticScholarFilters == {f \in SearchFilters : ~f.has_papers_limit}

\* Python truthiness of an int
TruthyInt(n) == n # 0

\* the prefixes and operators that mark a query as advanced syntax
TiPrefix == <<"t", "i", ":">>
AbsPrefix == <<"a", "b", "s", ":">>
AuPrefix == <<"a", "u", ":">>
CatPrefix == <<"c", "a", "t", ":">>
OpAnd == <<"A", "N", "D">>
OpOr == <<"O", "R">>
OpAndNot == <<"A", "N", "D", "N", "O", "T">>
AdvancedMarkers ==
    {TiPrefix, AbsPrefix, AuPrefix, CatPrefix, OpAnd, OpOr, OpAndNot}

\* any(prefix in query for prefix in [...])
IsAdvanced(q) == \E marker \in AdvancedMarkers : Contains(q, marker)

\* query.replace(f' {op.lower()} ', f' {op} ') for AND, OR, ANDNOT in turn
UpperCaseOperators(q) ==
    Replace(
        Replace(
            Replace(q, <<" ", "a", "n", "d", " ">>,
                    <<" ", "A", "N", "D", " ">>),
            <<" ", "o", "r", " ">>, <<" ", "O", "R", " ">>),
        <<" ", "a", "n", "d", "n", "o", "t", " ">>,
        <<" ", "A", "N", "D", "N", "O", "T", " ">>)

\* the else branch: one term is searched in title and abstract, several
\* terms become an exact phrase
SimpleQuery(q) ==
    LET terms == Split(q)
        phrase == Join(terms)
    IN  IF Len(terms) = 1
        THEN <<"(", "t", "i", ":">> \o terms[1]
             \o <<" ", "O", "R", " ", "a", "b", "s", ":">>
             \o terms[1] \o <<")">>
        ELSE <<"(", "t", "i", ":", "\"">> \o phrase
             \o <<"\"", " ", "O", "R", " ", "a", "b", "s", ":", "\"">>
             \o phrase \o <<"\"", ")">>

\* a guard that ignores the order of the two years
DateFilterAnyOrder(start_year, end_year) ==
    TruthyInt(start_year) /\ TruthyInt(end_year)

\* if start_year and end_year and start_year <= end_year
DateFilterApplies(start_year, end_year) ==
    TruthyInt(start_year) /\ TruthyInt(end_year) /\ start_year <= end_year

\* f' AND submittedDate:[{start_year}01010000 TO {end_year}12312359]'
DateFilter(start_year, end_year) ==
    <<" ", "A", "N", "D", " ", "s", "u", "b", "m", "i", "t", "t", "e", "d",
      "D", "a", "t", "e", ":", "[">>
    \o Str(start_year) \o <<"0", "1", "0", "1", "0", "0", "0", "0">>
    \o <<" ", "T", "O", " ">> \o Str(end_year)
    \o <<"1", "2", "3", "1", "2", "3", "5", "9", "]">>

\* _build_search_query(query, filters)
_build_search_query(q, filters) ==
    LET stripped == Strip(q)
        search_query ==
            IF IsAdvanced(stripped) THEN UpperCaseOperators(stripped)
            ELSE SimpleQuery(stripped)
        filtered ==
            IF /\ filters.has_year_range
               /\ DateFilterApplies(filters.start_year, filters.end_year)
            THEN search_query
                 \o DateFilter(filters.start_year, filters.end_year)
            ELSE search_query
    IN  Quote(filtered, SafeChars)

-----------------------------------------------------------------------------
(* Request parameters and result filters of the three search_papers *)

\* year of a record of a response; 0 stands for a record without year (None)
NoYear == 0
RecordYears == Years \cup {NoYear}

\* citationCount of a record: the key is missing, the value is null, or an int
CitationValues ==
    [kind : {"missing", "null"}, n : {0}] \cup [kind : {"int"}, n : 0..MaxCites]

\* a value of a JSON object: the key is missing, the value is null, or it
\* has the type the API documents (a string, a list of author objects)
JsonValues == {"missing", "null", "value"}

\* the records of a Semantic Scholar response (data)
SemanticScholarPapers ==
    [paperId : JsonValues, title : JsonValues, authors : JsonValues,
     year : RecordYears, citationCount : CitationValues]

\* the records that hold paperId, title and authors
SemanticScholarRecords ==
    {paper \in SemanticScholarPapers :
        /\ paper.paperId = "value" /\ paper.title = "value"
        /\ paper.authors = "value"}

\* the records checked for their id, title and authors: one year, one count
SemanticScholarSparse ==
    {paper \in SemanticScholarPapers :
        paper.year = 2024 /\ paper.citationCount = [kind |-> "int", n |-> 0]}

\* the PubmedArticle elements of an efetch response: PMID and ArticleTitle
\* may be absent, and the text of Year may be no number (year is then NoYear)
PubMedArticles ==
    {article \in [has_pmid : BOOLEAN, has_title : BOOLEAN,
                  year : RecordYears, year_numeric : BOOLEAN,
                  citationCount : {[kind |-> "missing", n |-> 0]}] :
        ~article.year_numeric => article.year = NoYear}

\* the articles that hold PMID, ArticleTitle and a numeric or no Year
PubMedRecords ==
    {article \in PubMedArticles :
        article.has_pmid /\ article.has_title /\ article.year_numeric}

\* the entry elements of an arXiv feed: at most one of the id, title and
\* summary elements is absent; authors with or without a name element;
\* published absent, a date, or text that starts with no number
ArxivEntries ==
    [missing : {"none", "id", "title", "summary"},
     author : {"none", "named", "unnamed"},
     published : {"absent", "date", "garbled"}]

\* paper.get('citationCount', 0)
GetCitationCount(paper) ==
    IF paper.citationCount.kind = "missing"
    THEN [kind |-> "int", n |-> 0]
    ELSE paper.citationCount

\* paper.get(key, ''): the default stands in for a missing key only
JsonGet(value, text) ==
    CASE value = "missing" -> ""
      [] value = "null" -> NoneId
      [] OTHER -> text

\* processed_paper of the async search_papers, index being the place of the
\* record in the response
ProcessedPaper(data, i) ==
    [index |-> i,
     id |-> JsonGet(data[i].paperId, "paperId"),
     title |-> JsonGet(data[i].title, "title"),
     authors |-> IF data[i].authors = "value" THEN <<"name">> ELSE <<>>,
     year |-> data[i].year,
     citationCount |-> GetCitationCount(data[i])]

\* for author in paper.get('authors', []): a null value is not iterable, the
\* TypeError reaches the except clause of the loop body
ProcessingRaises(paper) == paper.authors = "null"

\* a year filter that lets every record pass
YearPassesAlways(paper, filters) == TRUE

\* _apply_filters: the year_range block does not return False
YearPasses(paper, filters) ==
    IF /\ filters.has_year_range
       /\ TruthyInt(filters.start_year) /\ TruthyInt(filters.end_year)
    THEN /\ TruthyInt(paper.year)
         /\ filters.start_year <= paper.year
         /\ paper.year <= filters.end_year
    ELSE TRUE

\* a citation filter that lets every record pass
CitationPassesAlways(paper, filters) == TRUE

\* _apply_filters: the min_citation_count block does not return False;
\* None < min_cites is a TypeError, which the except clause turns into False
CitationPasses(paper, filters) ==
    IF filters.has_min_citation_count
    THEN /\ paper.citationCount.kind = "int"
         /\ ~(paper.citationCount.n < filters.min_citation_count)
    ELSE TRUE

\* _apply_filters(paper, filters)
_apply_filters(paper, filters) ==
    YearPasses(paper, filters) /\ CitationPasses(paper, filters)

\* the for loop over data of the async search_papers
RECURSIVE ProcessPapers(_, _, _, _)
ProcessPapers(data, i, filters, processed_papers) ==
    IF i > Len(data) THEN processed_papers
    ELSE LET processed_paper == ProcessedPaper(data, i)
         IN  ProcessPapers(data, i + 1, filters,
                 IF /\ ~ProcessingRaises(data[i])
                    /\ _apply_filters(processed_paper, filters)
                 THEN Append(processed_papers, processed_paper)
                 ELSE processed_papers)

\* the year parameter of the async search_papers
SemanticScholarYearParam(filters) ==
    IF /\ filters.has_year_range
       /\ TruthyInt(filters.start_year) /\ TruthyInt(filters.end_year)
    THEN [present |-> TRUE,
          value |-> Str(filters.start_year) \o <<"-">> \o Str(filters.end_year)]
    ELSE [present |-> FALSE, value |-> <<>>]

\* params["term"] of PubMedClient.search_papers
PubMedTerm(q, filters) ==
    IF /\ filters.has_year_range
       /\ TruthyInt(filters.start_year) /\ TruthyInt(filters.end_year)
    THEN q \o <<" ", "A", "N", "D", " ">> \o Str(filters.start_year)
         \o <<":">> \o Str(filters.end_year) \o <<"[", "d", "p", "]">>
    ELSE q

\* paper['year'] = int(year.text) raises ValueError on text that is no number
ArticleRaises(article) == ~article.year_numeric

\* the paper made of article i of an efetch response
ParsedPaper(data, i) ==
    [index |-> i,
     id |-> IF data[i].has_pmid THEN "PMID" ELSE NoneId,
     title |-> IF data[i].has_title THEN "ArticleTitle"
               ELSE "No title available",
     authors |-> <<>>,
     year |-> data[i].year,
     citationCount |-> data[i].citationCount]

\* a parser that gives up the whole response when one article raises
ParsedPapersOrNothing(data) ==
    IF \E i \in DOMAIN data : ArticleRaises(data[i]) THEN <<>>
    ELSE [i \in 1..Len(data) |-> ParsedPaper(data, i)]

\* _parse_papers_details: every article becomes a record, but for the
\* articles whose processing raises, which the loop body's except skips
ParsedPapers(data) ==
    LET kept == SelectSeq([i \in 1..Len(data) |-> i],
                          LAMBDA i : ~ArticleRaises(data[i]))
    IN  [k \in 1..Len(kept) |-> ParsedPaper(data, kept[k])]

\* ArxivClient._parse_response: find(...) of an absent element is None and
\* None.text raises AttributeError; int(published.text[:4]) raises ValueError
EntryRaises(entry) ==
    \/ entry.missing # "none"
    \/ entry.author = "unnamed"
    \/ entry.published = "garbled"

\* ArxivClient._parse_response: the entries become records, but for the
\* entries whose processing raises, which the loop body's except skips
_parse_response(data) ==
    LET kept == SelectSeq([i \in 1..Len(data) |-> i],
                          LAMBDA i : ~EntryRaises(data[i]))
    IN  [k \in 1..Len(kept) |->
            [index |-> kept[k],
             id |-> "id",
             title |-> "title",
             authors |-> IF data[kept[k]].author = "named"
                         THEN <<"name">> ELSE <<>>,
             year |-> IF data[kept[k]].published = "date"
                      THEN 2024 ELSE NoYear]]

\* min(filters.get("papers_limit", 100), 100)
default_limit == 100
limit_cap == 100
\* the limit sent as it is given, without the cap
CappedLimitUncapped(filters) ==
    IF filters.has_papers_limit THEN filters.papers_limit ELSE default_limit

CappedLimit(filters) ==
    LET papers_limit == IF filters.has_papers_limit
                        THEN filters.papers_limit ELSE default_limit
    IN  IF papers_limit < limit_cap THEN papers_limit ELSE limit_cap

\* one entry of the journal table as a lookup of one venue name sees it:
\* the similarity of the normalised names, whether the lower-cased titles
\* are equal (equal titles have similarity 100), and the entry's metrics
JournalMetrics ==
    { [impact_factor |-> "56.9", jcr_quartile |-> "Q1", cas_quartile |-> "1"],
      [impact_factor |-> "2.1", jcr_quartile |-> "Q3", cas_quartile |-> "4"] }
JournalEntries ==
    { e \in [ratio : {84, 85, 86, 100}, title_equal : BOOLEAN,
             metrics : JournalMetrics] :
          e.title_equal => e.ratio = 100 }

\* _get_default_metrics()
_get_default_metrics ==
    [impact_factor |-> "N/A", jcr_quartile |-> "N/A", cas_quartile |-> "N/A"]

\* get_journal_metrics as the class binds it: the definition at line 711
\* replaces the one at line 316 in the class body, so every caller reaches
\* the exact comparison of lower-cased titles; the first equal title wins
RECURSIVE TitleMatchFrom(_, _)
TitleMatchFrom(journal_data, i) ==
    IF i > Len(journal_data) THEN _get_default_metrics
    ELSE IF journal_data[i].title_equal THEN journal_data[i].metrics
    ELSE TitleMatchFrom(journal_data, i + 1)

get_journal_metrics(journal_data) ==
    IF journal_data = <<>> THEN _get_default_metrics
    ELSE TitleMatchFrom(journal_data, 1)

\* search_papers_all_sources with the default sources registered and every
\* search returning a list: the for loop over the sources from place pos on
RECURSIVE MergeFrom(_, _, _, _)
MergeFrom(returned, pos, acc, seen) ==
    IF pos > Len(returned) THEN acc
    ELSE LET m == MergePapers(PapersOf(returned[pos], pos), acc, seen,
                              DefaultSources[pos])
         IN  MergeFrom(returned, pos + 1, m.all_papers, m.seen_paper_ids)

\* The calls: a client, its query and filters, and the records of the
\* response the call will receive
TranslatorCalls ==
    [client : {"arxiv"}, query : ArxivQueries, filters : ArxivFilters,
     data : {<<>>}]
    \cup [client : {"arxiv"}, query : {OneWord}, filters : {NoFilters},
          data : SeqsUpTo(ArxivEntries, MaxRecords)]
    \cup [client : {"semanticscholar"}, query : {OneWord},
          filters : SemanticScholarFilters,
          data : SeqsUpTo(SemanticScholarRecords, MaxRecords)]
    \cup [client : {"semanticscholar"}, query : {OneWord},
          filters : {NoFilters},
          data : SeqsUpTo(SemanticScholarSparse, MaxRecords)]
    \cup [client : {"pubmed"}, query : {OneWord}, filters : PubMedFilters,
          data : SeqsUpTo(PubMedRecords, MaxRecords)]
    \cup [client : {"pubmed"}, query : {OneWord}, filters : {NoFilters},
          data : SeqsUpTo(PubMedArticles, MaxRecords)]
    \cup [client : {"journal_metrics"}, query : {OneWord}, filters : {<<>>},
          data : SeqsUpTo(JournalEntries, MaxRecords)]
    \cup [client : {"manager"}, query : {OneWord}, filters : {<<>>},
          data : SeqsUpTo(SeqsUpTo(PaperIds, MaxPapers), Len(DefaultSources))]

NoCall == [client |-> "none", query |-> <<>>, filters |-> <<>>, data |-> <<>>]

TPending == [kind |-> "pending"]

\* no translator call in the other specifications
TIdle ==
    /\ t_call = NoCall
    /\ t_out = TPending

TInit ==
    /\ t_call \in TranslatorCalls
    /\ t_out = TPending

\* ArxivClient.search_papers: the request parameters and the records made
\* of a 200 response
ArxivTranslate ==
    /\ t_call.client = "arxiv"
    /\ t_out = TPending
    /\ t_out' = [kind |-> "params",
                 search_query |->
                     _build_search_query(t_call.query, t_call.filters),
                 max_results |-> CappedLimit(t_call.filters),
                 papers |-> _parse_response(t_call.data)]
    /\ UNCHANGED t_call
    /\ UNCHANGED <<mvars, cvars, svars, kvars>>

\* SemanticScholarClient.search_papers (async): the request parameters and
\* the records made of a 200 response
SemanticScholarTranslate ==
    /\ t_call.client = "semanticscholar"
    /\ t_out = TPending
    /\ t_out' = [kind |-> "papers",
                 query |-> t_call.query,
                 year |-> SemanticScholarYearParam(t_call.filters),
                 papers |-> ProcessPapers(t_call.data, 1, t_call.filters,
                                          <<>>)]
    /\ UNCHANGED t_call
    /\ UNCHANGED <<mvars, cvars, svars, kvars>>

\* PubMedClient.search_papers: the esearch term and the records made of the
\* efetch response
PubMedTranslate ==
    /\ t_call.client = "pubmed"
    /\ t_out = TPending
    /\ t_out' = [kind |-> "papers",
                 term |-> PubMedTerm(t_call.query, t_call.filters),
                 retmax |-> CappedLimit(t_call.filters),
                 papers |-> ParsedPapers(t_call.data)]
    /\ UNCHANGED t_call
    /\ UNCHANGED <<mvars, cvars, svars, kvars>>

\* SemanticScholarClient.get_journal_metrics for a non-empty venue name
GetJournalMetrics ==
    /\ t_call.client = "journal_metrics"
    /\ t_out = TPending
    /\ t_out' = [kind |-> "metrics",
                 metrics |-> get_journal_metrics(t_call.data)]
    /\ UNCHANGED t_call
    /\ UNCHANGED <<mvars, cvars, svars, kvars>>

\* PaperSourceManager.search_papers_all_sources: the merged list made of the
\* lists the sources returned
MergeAllSources ==
    /\ t_call.client = "manager"
    /\ t_out = TPending
    /\ t_out' = [kind |-> "merged",
                 papers |-> MergeFrom(t_call.data, 1, <<>>, {})]
    /\ UNCHANGED t_call
    /\ UNCHANGED <<mvars, cvars, svars, kvars>>

TNext ==
    \/ ArxivTranslate
    \/ SemanticScholarTranslate
    \/ PubMedTranslate
    \/ GetJournalMetrics
    \/ MergeAllSources
-----------------------------------------------------------------------------
(* Two search_papers calls on one ArxivClient, run as tasks of one event    *)
(* loop: a task gives up control only at an await, so the steps between two *)
(* awaits are one action.  Each call is followed up to the response of its  *)
(* first request; the retry loop is in ClientSpec.                          *)

MaxDispatches == 4

Tasks == {1, 2}

KInit ==
    /\ co_pc = [t \in Tasks |-> "idle"]
    /\ co_sleep = [t \in Tasks |-> 0]
    \* self.last_request_time = 0 and time.time() is the epoch time
    /\ co_last_request_age = AgeCap
    /\ co_since_dispatch = AgeCap
    /\ co_gaps = <<>>

\* seconds added to a saturating clock
Later(age, d) == IF age + d > AgeCap THEN AgeCap ELSE age + d

\* self.last_request_time = time.time(), then the loop's session.get(...)
\* of task t goes out
StampAndDispatch(t) ==
    /\ co_last_request_age' = 0
    /\ co_gaps' = Append(co_gaps, co_since_dispatch)
    /\ co_since_dispatch' = 0
    /\ co_pc' = [co_pc EXCEPT ![t] = "http"]

\* task t calls search_papers: _wait_for_rate_limit reads last_request_time
\* and either suspends in asyncio.sleep(request_interval - elapsed) or goes
\* on to the request
ConcurrentCall(t) ==
    /\ co_pc[t] = "idle"
    /\ Len(co_gaps) + Cardinality({u \in Tasks : co_pc[u] = "limiter_sleep"})
           < MaxDispatches
    /\ LET elapsed == co_last_request_age
       IN  IF elapsed < request_interval
           THEN /\ co_sleep' = [co_sleep EXCEPT ![t] = request_interval - elapsed]
                /\ co_pc' = [co_pc EXCEPT ![t] = "limiter_sleep"]
                /\ UNCHANGED <<co_last_request_age, co_since_dispatch, co_gaps>>
           ELSE /\ StampAndDispatch(t)
                /\ UNCHANGED co_sleep
    /\ UNCHANGED <<mvars, cvars, svars, tvars>>

\* the sleep of task t is over: it resumes after the await
ConcurrentWake(t) ==
    /\ co_pc[t] = "limiter_sleep"
    /\ co_sleep[t] = 0
    /\ StampAndDispatch(t)
    /\ UNCHANGED co_sleep
    /\ UNCHANGED <<mvars, cvars, svars, tvars>>

\* the response of task t's request arrives and its call returns
ConcurrentResponse(t) ==
    /\ co_pc[t] = "http"
    /\ co_pc' = [co_pc EXCEPT ![t] = "idle"]
    /\ UNCHANGED <<co_sleep, co_last_request_age, co_since_dispatch, co_gaps>>
    /\ UNCHANGED <<mvars, cvars, svars, tvars>>

\* one second passes; a task whose sleep is over resumes first
ConcurrentTick ==
    /\ \A t \in Tasks : co_pc[t] = "limiter_sleep" => co_sleep[t] > 0
    /\ \/ \E t \in Tasks : co_pc[t] = "limiter_sleep"
       \/ co_last_request_age < AgeCap
       \/ co_since_dispatch < AgeCap
    /\ co_sleep' = [t \in Tasks |->
                       IF co_pc[t] = "limiter_sleep" THEN co_sleep[t] - 1
                       ELSE co_sleep[t]]
    /\ co_last_request_age' = Later(co_last_request_age, 1)
    /\ co_since_dispatch' = Later(co_since_dispatch, 1)
    /\ UNCHANGED <<co_pc, co_gaps>>
    /\ UNCHANGED <<mvars, cvars, svars, tvars>>

KNext ==
    \/ \E t \in Tasks : ConcurrentCall(t)
    \/ \E t \in Tasks : ConcurrentWake(t)
    \/ \E t \in Tasks : ConcurrentResponse(t)
    \/ ConcurrentTick
-----------------------------------------------------------------------------
(* The specifications *)

Init == MInit /\ CInit /\ SInit /\ TIdle /\ KInit

\* one translator call, its inputs drawn from the bounded sets
TranslatorInit == MInit /\ CInit /\ SInit /\ TInit /\ KInit

Next == MNext

\* the source manager over arbitrary sources
Spec == Init /\ [][Next]_vars

\* sequential search_papers calls on the three clients
ClientSpec == Init /\ [][CNext]_vars

\* one synchronous Semantic Scholar call
SyncSpec == Init /\ [][SNext]_vars

\* the translators, filters, parsers, lookup and merge applied to one input
TranslatorSpec == TranslatorInit /\ [][TNext]_vars
\* two concurrent search_papers calls on one ArxivClient
ConcurrentSpec == Init /\ [][KNext]_vars

-----------------------------------------------------------------------------
(* Properties of PaperSourceManager.search_papers_all_sources *)

Min(S) == CHOOSE x \in S : \A y \in S : x <= y

\* C1: the merged result holds at most one record per id, and that record
\* was built by, and is tagged with, the first position of the selected
\* sources whose returned list held the id.
C1_FirstSourceWins ==
    /\ \A i, j \in 1..Len(all_papers) :
          all_papers[i].id = all_papers[j].id => i = j
    /\ \A i \in 1..Len(all_papers) :
          LET paper == all_papers[i]
          IN  /\ Truthy(paper.id)
              /\ returned_by[paper.id] # {}
              /\ paper.origin = Min(returned_by[paper.id])
              /\ paper.source = selected_sources[Min(returned_by[paper.id])]

\* C1 witness: the call is over, two different sources returned p1, and the
\* result holds p1 tagged with the earlier of the two.
C1_Witness ==
    /\ mpc = "done"
    /\ returned_by["p1"] = {1, 2}
    /\ selected_sources[1] # selected_sources[2]
    /\ \E i \in 1..Len(all_papers) :
          all_papers[i].id = "p1" /\ all_papers[i].source = selected_sources[1]

C8_ConcurrentDispatch ==
    (/\ mpc = "await"
     /\ \E j \in (idx + 1)..Len(selected_sources) :
           /\ selected_sources[j] \in sources
           /\ selected_sources[j] # selected_sources[idx])
    => ENABLED (Next /\ \E j \in (idx + 1)..Len(selected_sources) : j \in searched')

-----------------------------------------------------------------------------
(* Properties of the clients' async search_papers *)

\* the responses received so far are all of them HTTP 429
AllResponses429 ==
    /\ http_log # <<>>
    /\ \A i \in 1..Len(http_log) :
          http_log[i].kind = "http" /\ http_log[i].status = 429

\* C3: a call of ArxivClient or SemanticScholarClient that saw HTTP 429 on
\* every attempt has issued exactly max_retries requests when it returns, and
\* returns an empty list.
C3_Always429ReturnsEmpty ==
    (/\ cpc = "returned"
     /\ client \in {"arxiv", "semanticscholar"}
     /\ AllResponses429)
    => (Len(http_log) = max_retries /\ result = EmptyList)

\* response i is a non-200 status that is neither 429 nor 5xx
IsClientErrorStatus(entry) ==
    /\ entry.kind = "http"
    /\ entry.status \notin {200, 429}
    /\ entry.status < 500

\* C4: in every client, a call whose request is answered by HTTP 400 (or by
\* another non-200 status that is neither 429 nor 5xx) ends there: one
\* request, no backoff, an empty list.
C4_ClientErrorNotRetried ==
    (http_log # <<>> /\ IsClientErrorStatus(http_log[1]))
    => /\ Len(http_log) = 1
       /\ backoffs = <<>>
       /\ cpc = "returned"
       /\ result = EmptyList

\* response i is an HTTP 5xx or a transport-level error
IsTransient(entry) ==
    \/ entry.kind = "http" /\ entry.status >= 500
    \/ entry.kind \in {"client_error", "timeout"}

\* C5: in every client, attempt i answered by a 5xx or a transport error is
\* followed by a 5-second backoff and another attempt while i < max_retries,
\* and by the return of an empty list when i = max_retries.
C5_TransientRetriedAfter5s ==
    \A i \in 1..Len(http_log) :
        IsTransient(http_log[i]) =>
            IF i < max_retries
            THEN /\ Len(backoffs) >= i
                 /\ backoffs[i] = client_error_sleep
                 /\ cpc # "returned" \/ Len(http_log) > i
            ELSE cpc = "returned" /\ result = EmptyList

\* C6: every HTTP request of one ArxivClient goes out at least
\* request_interval seconds after the request before it, whether that one
\* belongs to the same call or to the call before.
C6_ArxivRequestsSpaced ==
    client = "arxiv" =>
        \A i \in 1..Len(http_log) : http_log[i].gap >= request_interval

\* C7: in the three clients, every HTTP request of search_papers goes out
\* right after a run of the rate-limit step, which has just set
\* last_request_time to the current time.
C7_RateLimitStepBeforeEveryRequest ==
    \A i \in 1..Len(http_log) :
        http_log[i].limited /\ http_log[i].request_time_age = 0

\* C9: in the three clients, a call with an empty or whitespace-only query
\* issues no HTTP request and returns an empty list.
C9_EmptyQueryNoRequest ==
    (cpc # "idle" /\ Strip(query) = <<>>)
    => /\ http_log = <<>>
       /\ cpc = "returned" => result = EmptyList

\* C10: ArxivClient.search_papers returns a list whatever the responses are.
C10_ArxivReturnsList ==
    (client = "arxiv" /\ cpc = "returned") => result.kind = "list"

-----------------------------------------------------------------------------
(* Claims about the synchronous Semantic Scholar request path (SyncSpec) *)

\* session.request returned a response with this status at call i
RespondedWith(i, status) ==
    /\ sync_requests[i].kind = "response"
    /\ sync_requests[i].status = status

SyncAllResponses429 ==
    /\ sync_requests # <<>>
    /\ \A i \in DOMAIN sync_requests : RespondedWith(i, 429)

\* C11: a synchronous call whose every response was HTTP 429 ends after
\* exactly max_retries requests by raising an error whose message names
\* Semantic Scholar; it does not return without a payload.
C11_Always429Raises ==
    (sync_pc = "done" /\ SyncAllResponses429)
        => /\ Len(sync_requests) = max_retries
           /\ sync_result.kind = "raise"
           /\ NamesSource(sync_result.msg)

\* C12: k responses 429 (1 <= k < max_retries) followed by a 200 end the
\* call after exactly k+1 requests with the payload of the 200 response.
C12_RetryThenSuccess ==
    \A k \in 1..(max_retries - 1) :
        ( /\ Len(sync_requests) >= k + 1
          /\ \A i \in 1..k : RespondedWith(i, 429)
          /\ RespondedWith(k + 1, 200) )
        => /\ sync_pc = "done"
           /\ Len(sync_requests) = k + 1
           /\ sync_result.kind \in {"payload", "list"}
           /\ sync_result.body = sync_requests[k + 1].body

C12_Witness ==
    /\ sync_pc = "done"
    /\ Len(sync_requests) = max_retries
    /\ \A i \in 1..(max_retries - 1) : RespondedWith(i, 429)
    /\ RespondedWith(max_retries, 200)
    /\ sync_result = SyncPayload("b2")

\* C13: a synchronous call sleeps before its first request, and that pacing
\* sleep lasts at least 0.1 s and at most request_interval.
C13_PacingSleepWithinInterval ==
    /\ sync_requests # <<>>
          => (sync_sleeps # <<>> /\ sync_sleeps[1].kind = "pacing")
    /\ \A i \in DOMAIN sync_sleeps :
          sync_sleeps[i].kind = "pacing"
              => /\ 10 * sync_sleeps[i].seconds >= 1
                 /\ sync_sleeps[i].seconds <= request_interval
-----------------------------------------------------------------------------
(* Further claims about search_papers_all_sources (Spec) *)

\* C14: the merged list is in first-seen order: a record built by an earlier
\* position of the selected sources precedes a record built by a later one,
\* and two records of one returned list stand in the order of that list.
C14_FirstSeenOrder ==
    \A i, j \in 1..Len(all_papers) :
        i < j =>
            \/ all_papers[i].origin < all_papers[j].origin
            \/ /\ all_papers[i].origin = all_papers[j].origin
               /\ all_papers[i].index < all_papers[j].index

\* C14 witness: the call is over; the first source returned a list whose
\* second entry was kept, a later source returned a list whose first entry
\* was kept, and the result lists them in that order.
C14_Witness ==
    /\ mpc = "done"
    /\ Len(all_papers) = 2
    /\ all_papers[1].origin = 1 /\ all_papers[1].index = 2
    /\ all_papers[2].origin = 3 /\ all_papers[2].index = 1

\* C15: a selected name that is not registered is skipped without raising:
\* no search is made for it, every registered selected source is searched by
\* the end of the call, and every record of the result carries the name of
\* its position, a name that is selected and registered.
C15_UnregisteredSkipped ==
    /\ ~escaped
    /\ \A i \in searched : selected_sources[i] \in sources
    /\ mpc = "done" =>
          \A i \in 1..Len(selected_sources) :
              selected_sources[i] \in sources => i \in searched
    /\ \A i \in 1..Len(all_papers) :
          /\ all_papers[i].source \in sources
          /\ all_papers[i].origin \in 1..Len(selected_sources)
          /\ all_papers[i].source = selected_sources[all_papers[i].origin]

\* C15 witness: the call is over, the second of three selected names is not
\* registered, the first and the third were searched and the result holds a
\* record of the third.
C15_Witness ==
    /\ mpc = "done"
    /\ Len(selected_sources) = 3
    /\ selected_sources[2] \notin sources
    /\ searched = {1, 3}
    /\ \E i \in 1..Len(all_papers) : all_papers[i].origin = 3
-----------------------------------------------------------------------------
(* Claims about the query translators and result filters (TranslatorSpec) *)

\* the decimal text of the years, written out
YearText(y) ==
    CASE y = 2019 -> <<"2", "0", "1", "9">>
      [] y = 2024 -> <<"2", "0", "2", "4">>
      [] y = 2025 -> <<"2", "0", "2", "5">>

\* a call of this client has produced its output
Translated(c) == t_call.client = c /\ t_out # TPending

\* record j of the response is not among the returned records
LeftOut(j) == \A i \in DOMAIN t_out.papers : t_out.papers[i].index # j

\* C16: with a year_range (start, end) the Semantic Scholar search sends the
\* year parameter "<start>-<end>" and returns no record whose year is outside
\* [start, end], whatever records the response holds.
C16_YearRangeSentAndApplied ==
    (Translated("semanticscholar") /\ t_call.filters.has_year_range)
        => LET start == t_call.filters.start_year
               end == t_call.filters.end_year
           IN  /\ t_out.year.present
               /\ t_out.year.value
                      = YearText(start) \o <<"-">> \o YearText(end)
               /\ \A i \in DOMAIN t_out.papers :
                      /\ start <= t_out.papers[i].year
                      /\ t_out.papers[i].year <= end

\* C16 witness: the range is 2019-2024, the response holds a record of 2025
\* and then one of 2024, and only the second is returned.
C16_Witness ==
    /\ Translated("semanticscholar")
    /\ t_call.filters.has_year_range
    /\ t_call.filters.start_year = 2019 /\ t_call.filters.end_year = 2024
    /\ Len(t_call.data) = 2
    /\ t_call.data[1].year = 2025 /\ t_call.data[2].year = 2024
    /\ Len(t_out.papers) = 1 /\ t_out.papers[1].index = 2

\* C17: with a year_range (start, end) the PubMed search returns no record
\* whose year is outside [start, end], whatever records the responses hold.
C17_PubMedYearRange ==
    (Translated("pubmed") /\ t_call.filters.has_year_range)
        => \A i \in DOMAIN t_out.papers :
              t_out.papers[i].year # NoYear
                  => /\ t_call.filters.start_year <= t_out.papers[i].year
                     /\ t_out.papers[i].year <= t_call.filters.end_year

EndsWith(s, suffix) ==
    /\ Len(suffix) <= Len(s)
    /\ StartsWithAt(s, suffix, Len(s) - Len(suffix) + 1)

SubmittedDate ==
    <<"s", "u", "b", "m", "i", "t", "t", "e", "d", "D", "a", "t", "e">>

\* the date clause as it stands in the encoded query
EncodedDateClause(start, end) ==
    <<"%", "2", "0", "A", "N", "D",
      "%", "2", "0", "s", "u", "b", "m", "i", "t", "t", "e", "d", "D",
      "a", "t", "e", ":", "[">>
    \o YearText(start) \o <<"0", "1", "0", "1", "0", "0", "0", "0", "%", "2", "0", "T", "O", "%", "2", "0">>
    \o YearText(end) \o <<"1", "2", "3", "1", "2", "3", "5", "9", "]">>

\* C19: the arXiv query ends with the date clause of (start, end) exactly
\* when filters has a year_range with start <= end; otherwise, start > end
\* included, the query is built without any date clause.
C19_DateClauseIffOrdered ==
    Translated("arxiv")
        => LET start == t_call.filters.start_year
               end == t_call.filters.end_year
           IN  IF t_call.filters.has_year_range /\ start <= end
               THEN /\ EndsWith(t_out.search_query,
                                EncodedDateClause(start, end))
                    /\ Count(t_out.search_query, SubmittedDate) = 1
               ELSE ~Contains(t_out.search_query, SubmittedDate)

\* C19 witness: the two-word query with the range 2019-2024 got its clause.
C19_Witness ==
    /\ Translated("arxiv")
    /\ t_call.query = TwoWords
    /\ t_call.filters.has_year_range
    /\ t_call.filters.start_year = 2019 /\ t_call.filters.end_year = 2024
    /\ Contains(t_out.search_query, SubmittedDate)

TiQuoteEvent == <<"t", "i", ":", "%", "2", "2", "e", "v", "e", "n", "t">>
AbsQuoteEvent ==
    <<"a", "b", "s", ":", "%", "2", "2", "e", "v", "e", "n", "t">>

\* C20: for the quoted query "event processing" with papers_limit = 10 the
\* encoded arXiv query contains ti:%22event and abs:%22event, and the
\* translator lower-cases no AND or OR of a query.
C20_QuotedPhraseEncoded ==
    Translated("arxiv")
        => /\ ( /\ t_call.query = QuotedPhrase
                /\ t_call.filters.has_papers_limit
                /\ t_call.filters.papers_limit = 10 )
              => /\ Contains(t_out.search_query, TiQuoteEvent)
                 /\ Contains(t_out.search_query, AbsQuoteEvent)
           /\ \A op \in {OpAnd, OpOr} :
                 Count(t_out.search_query, op) >= Count(t_call.query, op)

\* the query holds a field prefix, or one of its words is AND, OR or ANDNOT
UsesArxivSyntax(q) ==
    \/ \E prefix \in {TiPrefix, AbsPrefix, AuPrefix, CatPrefix} :
           Contains(q, prefix)
    \/ \E i \in DOMAIN Split(q) : Split(q)[i] \in {OpAnd, OpOr, OpAndNot}

LowerOperators ==
    { <<"%", "2", "0", "a", "n", "d", "%", "2", "0">>,
      <<"%", "2", "0", "o", "r", "%", "2", "0">>,
      <<"%", "2", "0", "a", "n", "d", "n", "o", "t", "%", "2", "0">> }

\* C21: the arXiv translator passes a query through, with its lower-case
\* operators between words put in upper case, only when the query holds a
\* field prefix or has AND, OR or ANDNOT as a word; every other query is
\* wrapped, one word w as (ti:w OR abs:w), several words as an exact phrase.
C21_PassThroughOnlyForSyntax ==
    Translated("arxiv")
        => LET q == Strip(t_call.query)
           IN  IF UsesArxivSyntax(q)
               THEN /\ StartsWithAt(t_out.search_query,
                                    Quote(UpperCaseOperators(q), SafeChars),
                                    1)
                    /\ \A op \in LowerOperators :
                           ~Contains(t_out.search_query, op)
               ELSE StartsWithAt(t_out.search_query,
                                 Quote(SimpleQuery(q), SafeChars), 1)

\* the greatest similarity in the table, and the first entry that has it
BestRatio(table) ==
    CHOOSE r \in {table[i].ratio : i \in DOMAIN table} :
        \A i \in DOMAIN table : table[i].ratio <= r
FirstBest(table) ==
    table[CHOOSE i \in DOMAIN table :
              /\ table[i].ratio = BestRatio(table)
              /\ \A j \in 1..(i - 1) : table[j].ratio < BestRatio(table)]

\* C22: get_journal_metrics accepts an entry of the journal table only when
\* its similarity to the venue name is strictly greater than 85: a best
\* candidate at 84 or 85 gives "N/A" for all three metrics, a best candidate
\* at 86 gives that candidate's metrics.
C22_FuzzyThresholdStrict ==
    (Translated("journal_metrics") /\ t_call.data # <<>>)
        => IF BestRatio(t_call.data) > 85
           THEN t_out.metrics = FirstBest(t_call.data).metrics
           ELSE t_out.metrics = _get_default_metrics

\* C23: max_results of the arXiv request and retmax of the PubMed esearch
\* equal min(papers_limit, 100), with 100 taken for an absent papers_limit,
\* and so never exceed 100.
C23_ResultCountCapped ==
    (Translated("arxiv") \/ Translated("pubmed"))
        => LET sent == IF t_call.client = "arxiv"
                       THEN t_out.max_results ELSE t_out.retmax
               papers_limit == IF t_call.filters.has_papers_limit
                               THEN t_call.filters.papers_limit ELSE 100
           IN  /\ sent = Min({papers_limit, 100})
               /\ sent <= 100

\* C23 witness: a PubMed call with papers_limit = 101 sent retmax = 100.
C23_Witness ==
    /\ Translated("pubmed")
    /\ t_call.filters.has_papers_limit
    /\ t_call.filters.papers_limit = 101
    /\ t_out.retmax = 100

\* the HTTP requests that the first n session.request calls put on the wire
RECURSIVE HttpRequestsSent(_)
HttpRequestsSent(n) ==
    IF n = 0 THEN 0 ELSE HttpRequestsSent(n - 1) + sync_requests[n].sent

\* C24: one call of a retry loop issues at most max_retries (3) HTTP
\* requests, whatever mix of 429 responses, other error statuses and
\* transport errors it meets, a transport error after a 429 response
\* included; stated for _make_request, whose requests go through the session.
C24_AtMostMaxRetriesRequests ==
    HttpRequestsSent(Len(sync_requests)) <= max_retries

-----------------------------------------------------------------------------
(* Properties of concurrent calls on one ArxivClient *)

\* C25: when two search_papers calls run concurrently on one ArxivClient,
\* every HTTP request still goes out at least request_interval seconds after
\* the request before it.
C25_ConcurrentRequestsSpaced ==
    \A i \in DOMAIN co_gaps : co_gaps[i] >= request_interval

-----------------------------------------------------------------------------
(* Further properties of the clients' async search_papers *)

\* C26: PubMedClient.search_papers issues at most one esearch and one
\* efetch; the efetch goes out only after the esearch returned HTTP 200 with
\* a non-empty id list, and an esearch that failed or held no ids ends the
\* call with an empty list and no efetch.
C26_EfetchOnlyAfterEsearchIds ==
    client = "pubmed"
        => /\ Len(http_log) <= 2
           /\ \A i \in DOMAIN http_log :
                 http_log[i].endpoint = (IF i = 1 THEN "esearch" ELSE "efetch")
           /\ Len(http_log) = 2
                 => /\ http_log[1].kind = "http"
                    /\ http_log[1].status = 200
                    /\ http_log[1].has_ids
           /\ ( /\ Len(http_log) = 1
                /\ http_log[1].kind # "pending"
                /\ ~( /\ http_log[1].kind = "http"
                      /\ http_log[1].status = 200
                      /\ http_log[1].has_ids ) )
                 => cpc = "returned" /\ result = EmptyList

\* C26 witness: an esearch with ids was followed by an efetch whose records
\* were returned.
C26_Witness ==
    /\ client = "pubmed"
    /\ cpc = "returned"
    /\ Len(http_log) = 2
    /\ http_log[1].has_ids
    /\ http_log[2].endpoint = "efetch"
    /\ result.ids # <<>>

\* C27: in the retry loops of ArxivClient and of the async
\* SemanticScholarClient every backoff sleep is followed by another HTTP
\* request: a call that has returned made more requests than it slept
\* backoffs.
C27_BackoffFollowedByAttempt ==
    (client \in {"arxiv", "semanticscholar"} /\ cpc = "returned")
        => backoffs = <<>> \/ Len(backoffs) < Len(http_log)

-----------------------------------------------------------------------------
(* Properties of the merge over the returned lists *)

\* record i of the list returned at place pos is in the merged result
Merged(pos, i) ==
    \E k \in DOMAIN t_out.papers :
        t_out.papers[k].origin = pos /\ t_out.papers[k].index = i

\* a record with the same id, returned earlier in the fan-out order, was taken
TakenEarlier(pos, i) ==
    \E k \in DOMAIN t_out.papers :
        /\ t_out.papers[k].id = t_call.data[pos][i]
        /\ \/ t_out.papers[k].origin < pos
           \/ t_out.papers[k].origin = pos /\ t_out.papers[k].index < i

\* C28: search_papers_all_sources leaves a returned record out of the merged
\* result only when a record with the same id was taken earlier in the
\* fan-out order; every other record, one with the empty string as id
\* included, is in the result.
C28_OnlyDuplicatesLeftOut ==
    Translated("manager")
        => \A pos \in DOMAIN t_call.data :
               \A i \in DOMAIN t_call.data[pos] :
                   Merged(pos, i) \/ TakenEarlier(pos, i)

-----------------------------------------------------------------------------
(* Properties of the records the clients return *)

\* C29: every record returned by the search_papers of a client has a string,
\* never None, as id and as title, and a sequence as authors, whatever
\* elements the response leaves out.
C29_IdTitleStringsAuthorsList ==
    \A c \in Clients :
        Translated(c)
            => \A i \in DOMAIN t_out.papers :
                   /\ t_out.papers[i].id # NoneId
                   /\ t_out.papers[i].title # NoneId
                   /\ t_out.papers[i].authors \in Seq({"name"})

\* an entry that holds what its parser reads without a default: the id,
\* title and summary of an arXiv entry, a name in every author, and dates
\* that are numbers
WellFormed(entry) ==
    IF t_call.client = "arxiv"
    THEN /\ entry.missing = "none"
         /\ entry.author # "unnamed"
         /\ entry.published # "garbled"
    ELSE entry.year_numeric

\* C30: the arXiv and PubMed parsers skip a malformed entry and keep the
\* rest of the batch: the parsed list holds exactly the records of the
\* well-formed entries, in the order of the response.
C30_MalformedEntrySkipped ==
    (Translated("arxiv") \/ Translated("pubmed"))
        => /\ \A j \in DOMAIN t_call.data :
                  WellFormed(t_call.data[j]) <=> ~LeftOut(j)
           /\ \A i \in DOMAIN t_out.papers :
                  /\ t_out.papers[i].index \in DOMAIN t_call.data
                  /\ \A k \in DOMAIN t_out.papers :
                         i < k => t_out.papers[i].index < t_out.papers[k].index

\* C30 witness: of a PubMed response whose first article has a Year that is
\* no number and whose second article is complete, the second was returned.
C30_Witness ==
    /\ Translated("pubmed")
    /\ Len(t_call.data) = 2
    /\ ~t_call.data[1].year_numeric
    /\ t_call.data[2].year_numeric /\ t_call.data[2].year = 2024
    /\ Len(t_out.papers) = 1
    /\ t_out.papers[1].index = 2
    /\ t_out.papers[1].year = 2024
=============================================================================
